---- MODULE Spec2Model ----
(***************************************************************************)
(* NEXUS Marketplace API server (src/marketplace_server.py): the sellers,  *)
(* listings, carts and orders collections and the request handlers that    *)
(* read and write them.  Every handler is one atomic action (the server    *)
(* handles one request at a time); `last` records the request just served  *)
(* and its response.                                                       *)
(*                                                                         *)
(* Conventions of the model:                                               *)
(*   - identifiers (seller, listing, cart, order ids, API keys) are        *)
(*     integers; 0 stands for an absent or empty value (None or "", both   *)
(*     falsy in Python); uuid-generated ids are fresh numbers;             *)
(*   - text (card_name, set_code, rarity, filter strings) is a sequence of *)
(*     one-character strings, so that lower() and substring search are     *)
(*     computed;                                                           *)
(*   - prices and totals are integers counted in thousandths of a dollar,  *)
(*     so that round(x, 2) is computed; every price is even, which keeps   *)
(*     totals off the half-cent ties whose rounding depends on the binary  *)
(*     representation;                                                     *)
(*   - timestamps and the Scryfall enrichment fields are left out: no      *)
(*     handler branches on them.                                           *)
(***************************************************************************)
EXTENDS Integers, Sequences, FiniteSets

VARIABLES sellers, listings, carts, orders, nextListing, last, requests

vars == <<sellers, listings, carts, orders, nextListing, last, requests>>

(***************************************************************************)
(* Bounds of the model                                                     *)
(***************************************************************************)
MaxSellers == 2
MaxListings == 2
MaxCarts == 2
MaxOrders == 2
MaxIncoming == 2
MaxGenerated == 1
MaxQty == 2
MaxRequests == 3
LongRequests == 5

(***************************************************************************)
(* Values                                                                  *)
(***************************************************************************)
StaleCookie == -1
GenBase == 100
DefaultLimit == 100

Bolt == <<"B", "o">>
Fog == <<"f">>
Lea == <<"L">>
Rare == <<"r">>
NoText == <<>>

Prices == {1004, 2000}

\* ---- Python helpers ----------------------------------------------------

\* str.lower() on one character
LowerChar(c) ==
    CASE c = "B" -> "b"
      [] c = "O" -> "o"
      [] c = "L" -> "l"
      [] c = "R" -> "r"
      [] OTHER -> c

\* str.lower()
Lower(s) == [i \in 1..Len(s) |-> LowerChar(s[i])]

\* needle in hay
Contains(hay, needle) ==
    \E i \in 0..(Len(hay) - Len(needle)) :
        SubSeq(hay, i + 1, i + Len(needle)) = needle

\* round(x, 2) for x in thousandths, off ties
Round2(x) == ((x + 5) \div 10) * 10

\* seq[a:b] with Python's treatment of negative and overlong indices
PySlice(seq, a, b) ==
    LET n == Len(seq)
        norm(i) == IF i < 0 THEN (IF n + i < 0 THEN 0 ELSE n + i)
                   ELSE (IF i > n THEN n ELSE i)
    IN SubSeq(seq, norm(a) + 1, norm(b))

\* next((x for x in seq if ...), None): the least of the indices that
\* satisfy the condition, 0 when none does
FirstIndex(hits) ==
    IF hits = {} THEN 0 ELSE CHOOSE i \in hits : \A j \in hits : i <= j

\* ---- Authentication ----------------------------------------------------

\* seeded fault: the loop variable is used after the loop, so a key that
\* matches no seller is taken for the last seller looked at
require_api_key_leaky(api_key) ==
    IF api_key = 0 THEN 0
    ELSE IF \E s \in DOMAIN sellers : sellers[s].api_key = api_key
    THEN CHOOSE s \in DOMAIN sellers : sellers[s].api_key = api_key
    ELSE Len(sellers)

\* the seller id whose api_key equals the key presented, 0 when the key is
\* absent or matches no seller
require_api_key(api_key) ==
    IF api_key = 0 THEN 0
    ELSE IF \E s \in DOMAIN sellers : sellers[s].api_key = api_key
    THEN CHOOSE s \in DOMAIN sellers : sellers[s].api_key = api_key
    ELSE 0

\* the cart id served for a cookie
get_or_create_cart_id(cookie) ==
    IF cookie = 0 \/ cookie \notin DOMAIN carts
    THEN Cardinality(DOMAIN carts) + 1
    ELSE cookie

\* carts after get_or_create_cart_id
CartsWith(cart_id) ==
    IF cart_id \in DOMAIN carts THEN carts
    ELSE [c \in DOMAIN carts \cup {cart_id} |->
             IF c = cart_id THEN <<>> ELSE carts[c]]

CanServe(cookie) ==
    get_or_create_cart_id(cookie) \in DOMAIN carts
        \/ Cardinality(DOMAIN carts) < MaxCarts

\* a seller as register_seller stores it
Seller(n, shop_name, email) ==
    [shop_name |-> shop_name, email |-> email, api_key |-> n]

\* a store no request has touched but register_seller: the server starts
\* on the files a previous run left, and here only sellers.json holds
\* anything
InitFresh ==
    /\ sellers \in {<<>>, <<Seller(1, "shop", "a@x")>>,
                    <<Seller(1, "shop", "a@x"), Seller(2, "shop", "b@x")>>}
    /\ listings = <<>>
    /\ carts = <<>>
    /\ orders = <<>>
    /\ nextListing = 0
    /\ last = [op |-> "start", code |-> 0]
    /\ requests = 0

\* ---- Public endpoints ---------------------------------------------------

Active(l) == l.status = "Active"

\* seeded fault: > for >=
MinPriceOk_strict(l, min_price) == l.price > min_price

\* get_listings, the min_price filter
MinPriceOk(l, min_price) == l.price >= min_price

\* GET /api/listings: the `filtered` list
FilteredListings(name, set_code, seller_id, min_price, max_price, rarity) ==
    LET f0 == SelectSeq(listings, Active)
        byName(l) == Contains(Lower(l.card_name), Lower(name))
        f1 == IF name # NoText THEN SelectSeq(f0, byName) ELSE f0
        bySet(l) == Contains(Lower(l.set_code), Lower(set_code))
        f2 == IF set_code # NoText THEN SelectSeq(f1, bySet) ELSE f1
        bySeller(l) == l.seller_id = seller_id
        f3 == IF seller_id # 0 THEN SelectSeq(f2, bySeller) ELSE f2
        byMin(l) == MinPriceOk(l, min_price[1])
        f4 == IF min_price # <<>> THEN SelectSeq(f3, byMin) ELSE f3
        byMax(l) == l.price <= max_price[1]
        f5 == IF max_price # <<>> THEN SelectSeq(f4, byMax) ELSE f4
        byRarity(l) == Contains(Lower(l.rarity), Lower(rarity))
        f6 == IF rarity # NoText THEN SelectSeq(f5, byRarity) ELSE f5
    IN f6

\* GET /api/listings
get_listings(name, set_code, seller_id, min_price, max_price, rarity, limit, offset) ==
    LET filtered == FilteredListings(name, set_code, seller_id, min_price,
                                     max_price, rarity)
    IN /\ last' = [op |-> "get_listings", code |-> 200,
                   name |-> name, set |-> set_code, seller |-> seller_id,
                   min_price |-> min_price, max_price |-> max_price,
                   rarity |-> rarity,
                   listings |-> PySlice(filtered, offset, offset + limit),
                   total |-> Len(filtered)]
       /\ UNCHANGED <<sellers, listings, carts, orders, nextListing>>

\* ---- Cart endpoints -----------------------------------------------------

\* index in listings of the first listing with this id, 0 when none
ListingIndex(ls, listing_id) ==
    FirstIndex({i \in 1..Len(ls) : ls[i].id = listing_id})

\* seeded fault: the status of the listing is not looked at
RECURSIVE CartTotal_anyStatus(_)
CartTotal_anyStatus(items) ==
    IF items = <<>> THEN 0
    ELSE LET item == Head(items)
             i == ListingIndex(listings, item.listing_id)
         IN (IF i # 0 THEN listings[i].price * item.quantity ELSE 0)
            + CartTotal_anyStatus(Tail(items))

\* GET /api/cart: the total before rounding
RECURSIVE CartTotal(_)
CartTotal(items) ==
    IF items = <<>> THEN 0
    ELSE LET item == Head(items)
             i == ListingIndex(listings, item.listing_id)
         IN (IF i # 0 /\ Active(listings[i])
             THEN listings[i].price * item.quantity ELSE 0)
            + CartTotal(Tail(items))

RECURSIVE CartCount(_)
CartCount(items) ==
    IF items = <<>> THEN 0
    ELSE LET i == ListingIndex(listings, Head(items).listing_id)
         IN (IF i # 0 /\ Active(listings[i]) THEN 1 ELSE 0)
            + CartCount(Tail(items))

\* GET /api/cart
get_cart(cookie) ==
    LET cart_id == get_or_create_cart_id(cookie)
        cart == CartsWith(cart_id)[cart_id]
    IN /\ CanServe(cookie)
       /\ carts' = CartsWith(cart_id)
       /\ last' = [op |-> "get_cart", code |-> 200,
                   cart_id |-> cart_id, item_count |-> CartCount(cart),
                   total |-> Round2(CartTotal(cart))]
       /\ UNCHANGED <<sellers, listings, orders, nextListing>>

\* POST /api/cart/add: the response code and the items of the cart afterwards
AddResult(cart, listing_id, quantity) ==
    LET li == FirstIndex({i \in 1..Len(listings) :
                             listings[i].id = listing_id
                                /\ Active(listings[i])})
        ei == FirstIndex({k \in 1..Len(cart) :
                             cart[k].listing_id = listing_id})
    IN IF listing_id = 0 THEN [code |-> 400, items |-> cart]
       ELSE IF li = 0 THEN [code |-> 404, items |-> cart]
       ELSE IF ei # 0
       THEN IF cart[ei].quantity + quantity > listings[li].quantity
            THEN [code |-> 400, items |-> cart]
            ELSE [code |-> 200,
                  items |-> [cart EXCEPT ![ei].quantity = @ + quantity]]
       ELSE IF quantity > listings[li].quantity
            THEN [code |-> 400, items |-> cart]
            ELSE [code |-> 200,
                  items |-> Append(cart, [listing_id |-> listing_id,
                                          quantity |-> quantity])]

\* POST /api/cart/add
add_to_cart(cookie, listing_id, quantity) ==
    LET cart_id == get_or_create_cart_id(cookie)
        r == AddResult(CartsWith(cart_id)[cart_id], listing_id, quantity)
    IN /\ CanServe(cookie)
       /\ carts' = [CartsWith(cart_id) EXCEPT ![cart_id] = r.items]
       /\ last' = [op |-> "add_to_cart", code |-> r.code,
                   cart_id |-> cart_id, listing_id |-> listing_id,
                   quantity |-> quantity]
       /\ UNCHANGED <<sellers, listings, orders, nextListing>>

\* POST /api/cart/remove
remove_from_cart(cookie, listing_id) ==
    LET cart_id == get_or_create_cart_id(cookie)
        keep(it) == it.listing_id # listing_id
    IN /\ CanServe(cookie)
       /\ carts' = [CartsWith(cart_id) EXCEPT ![cart_id] = SelectSeq(@, keep)]
       /\ last' = [op |-> "remove_from_cart", code |-> 200,
                   cart_id |-> cart_id]
       /\ UNCHANGED <<sellers, listings, orders, nextListing>>

\* POST /api/cart/clear
clear_cart(cookie) ==
    LET cart_id == get_or_create_cart_id(cookie)
    IN /\ CanServe(cookie)
       /\ carts' = [CartsWith(cart_id) EXCEPT ![cart_id] = <<>>]
       /\ last' = [op |-> "clear_cart", code |-> 200,
                   cart_id |-> cart_id]
       /\ UNCHANGED <<sellers, listings, orders, nextListing>>

\* ---- Checkout -----------------------------------------------------------

\* checkout, "Group items by seller": the order items of the cart items
\* whose listing is found, each with the seller of that listing
RECURSIVE Resolved(_)
Resolved(items) ==
    IF items = <<>> THEN <<>>
    ELSE LET item == Head(items)
             i == ListingIndex(listings, item.listing_id)
         IN (IF i = 0 THEN <<>>
             ELSE <<[seller_id |-> listings[i].seller_id,
                     item |-> [listing_id |-> listings[i].id,
                               card_name |-> listings[i].card_name,
                               set_code |-> listings[i].set_code,
                               condition |-> listings[i].condition,
                               price |-> listings[i].price,
                               quantity |-> item.quantity]]>>)
            \o Resolved(Tail(items))

\* the keys of seller_orders in insertion order
RECURSIVE SellerKeys(_, _)
SellerKeys(res, seen) ==
    IF res = <<>> THEN <<>>
    ELSE IF Head(res).seller_id \in seen THEN SellerKeys(Tail(res), seen)
    ELSE <<Head(res).seller_id>>
         \o SellerKeys(Tail(res), seen \cup {Head(res).seller_id})

\* seller_orders[seller_id]
ItemsOf(res, seller_id) ==
    LET mine(r) == r.seller_id = seller_id
        sel == SelectSeq(res, mine)
    IN [k \in 1..Len(sel) |-> sel[k].item]

RECURSIVE OrderTotal(_)
OrderTotal(items) ==
    IF items = <<>> THEN 0
    ELSE Head(items).price * Head(items).quantity + OrderTotal(Tail(items))

\* checkout, the order built for one seller
NewOrder(order_id, seller_id, items, buyer_name, buyer_email) ==
    [id |-> order_id, seller_id |-> seller_id, buyer_name |-> buyer_name,
     buyer_email |-> buyer_email, items |-> items,
     total |-> Round2(OrderTotal(items)), status |-> "pending",
     tracking |-> ""]

\* checkout, "Mark listings as reserved/sold", for one order item
Decrement(ls, item) ==
    [i \in 1..Len(ls) |->
        IF ls[i].id = item.listing_id
        THEN [ls[i] EXCEPT
                 !.quantity = ls[i].quantity - item.quantity,
                 !.status = IF ls[i].quantity - item.quantity <= 0
                            THEN "Sold" ELSE ls[i].status]
        ELSE ls[i]]

RECURSIVE DecrementAll(_, _)
DecrementAll(ls, items) ==
    IF items = <<>> THEN ls
    ELSE DecrementAll(Decrement(ls, Head(items)), Tail(items))

RECURSIVE Flatten(_)
Flatten(seqs) ==
    IF seqs = <<>> THEN <<>> ELSE Head(seqs) \o Flatten(Tail(seqs))

\* seeded fault: "and" for "or" between the two buyer fields
CheckoutRejects_and(cart, buyer_name, buyer_email) ==
    cart = <<>> \/ (buyer_email = "" /\ buyer_name = "")

\* checkout, the two requests answered 400
CheckoutRejects(cart, buyer_name, buyer_email) ==
    cart = <<>> \/ buyer_email = "" \/ buyer_name = ""

\* seeded fault: the cart is not cleared
ClearedCart_kept(carts1, cart_id) == carts1

\* checkout, "Clear cart"
ClearedCart(carts1, cart_id) == [carts1 EXCEPT ![cart_id] = <<>>]

\* POST /api/checkout
checkout(cookie, buyer_name, buyer_email) ==
    LET cart_id == get_or_create_cart_id(cookie)
        carts1 == CartsWith(cart_id)
        cart == carts1[cart_id]
        res == Resolved(cart)
        keys == SellerKeys(res, {})
        created == [k \in 1..Len(keys) |->
                       NewOrder(Len(orders) + k, keys[k],
                                ItemsOf(res, keys[k]), buyer_name,
                                buyer_email)]
        sold == Flatten([k \in 1..Len(keys) |-> created[k].items])
        req == [op |-> "checkout", code |-> 0, cart_id |-> cart_id,
                name |-> buyer_name, email |-> buyer_email]
    IN /\ CanServe(cookie)
       /\ IF CheckoutRejects(cart, buyer_name, buyer_email)
          THEN /\ carts' = carts1
               /\ last' = [req EXCEPT !.code = 400]
               /\ UNCHANGED <<listings, orders>>
          ELSE /\ Len(orders) + Len(keys) <= MaxOrders
               /\ orders' = orders \o created
               /\ listings' = DecrementAll(listings, sold)
               /\ carts' = ClearedCart(carts1, cart_id)
               /\ last' = [req EXCEPT !.code = 200]
       /\ UNCHANGED <<sellers, nextListing>>

\* ---- Seller endpoints ---------------------------------------------------

\* POST /api/seller/register
register_seller(shop_name, email) ==
    IF shop_name = "" \/ email = ""
          \/ \E s \in DOMAIN sellers : sellers[s].email = email
    THEN /\ last' = [op |-> "register_seller", code |-> 400]
         /\ UNCHANGED <<sellers, listings, carts, orders, nextListing>>
    ELSE /\ Len(sellers) < MaxSellers
         /\ sellers' = Append(sellers,
                              Seller(Len(sellers) + 1, shop_name, email))
         /\ last' = [op |-> "register_seller", code |-> 200]
         /\ UNCHANGED <<listings, carts, orders, nextListing>>

\* sync_listings, the body of "for incoming in incoming_listings" for one
\* entry; st = [ls: the listings so far, gen: the ids generated so far]
SyncOne(st, incoming, seller_id) ==
    LET gen == IF incoming.id = 0 THEN st.gen + 1 ELSE st.gen
        inc == [incoming EXCEPT
                   !.id = IF incoming.id = 0 THEN GenBase + gen ELSE @,
                   !.seller_id = seller_id]
        same(l) == \/ l.id = inc.id
                   \/ /\ l.card_name = inc.card_name
                      /\ l.condition = inc.condition
                      /\ l.seller_id = seller_id
        existing == FirstIndex({i \in 1..Len(st.ls) : same(st.ls[i])})
    IN [ls |-> IF existing # 0 THEN [st.ls EXCEPT ![existing] = inc]
               ELSE Append(st.ls, inc),
        gen |-> gen]

RECURSIVE SyncAll(_, _, _)
SyncAll(st, incoming_listings, seller_id) ==
    IF incoming_listings = <<>> THEN st
    ELSE SyncAll(SyncOne(st, Head(incoming_listings), seller_id),
                 Tail(incoming_listings), seller_id)

\* seeded fault: replace mode removes nothing
SyncBase_keep(mode, seller_id) == listings

\* sync_listings, the listings the incoming entries are merged into
SyncBase(mode, seller_id) ==
    LET others(l) == l.seller_id # seller_id
    IN IF mode = "replace" THEN SelectSeq(listings, others) ELSE listings

\* POST /api/seller/sync
sync_listings(api_key, incoming_listings, mode) ==
    LET seller_id == require_api_key(api_key)
        st == SyncAll([ls |-> SyncBase(mode, seller_id), gen |-> nextListing],
                      incoming_listings, seller_id)
        req == [op |-> "sync_listings", code |-> 0, api_key |-> api_key,
                mode |-> mode, listings |-> incoming_listings,
                first_id |-> nextListing]
    IN IF seller_id = 0
       THEN /\ last' = [req EXCEPT !.code = 401]
            /\ UNCHANGED <<sellers, listings, carts, orders, nextListing>>
       ELSE /\ Len(st.ls) <= MaxListings
            /\ st.gen <= MaxGenerated
            /\ listings' = st.ls
            /\ nextListing' = st.gen
            /\ last' = [req EXCEPT !.code = 200]
            /\ UNCHANGED <<sellers, carts, orders>>

\* GET /api/seller/listings
seller_listings(api_key) ==
    LET seller_id == require_api_key(api_key)
        mine(l) == l.seller_id = seller_id
    IN /\ last' = IF seller_id = 0
                  THEN [op |-> "seller_listings", code |-> 401,
                        api_key |-> api_key]
                  ELSE [op |-> "seller_listings", code |-> 200,
                        api_key |-> api_key,
                        total |-> Len(SelectSeq(listings, mine))]
       /\ UNCHANGED <<sellers, listings, carts, orders, nextListing>>

\* GET /api/seller/orders
seller_orders(api_key) ==
    LET seller_id == require_api_key(api_key)
        mine(o) == o.seller_id = seller_id
    IN /\ last' = IF seller_id = 0
                  THEN [op |-> "seller_orders", code |-> 401,
                        api_key |-> api_key]
                  ELSE [op |-> "seller_orders", code |-> 200,
                        api_key |-> api_key,
                        total |-> Len(SelectSeq(orders, mine))]
       /\ UNCHANGED <<sellers, listings, carts, orders, nextListing>>

\* seeded fault: the order is looked up by id alone
update_order_anySeller(api_key, order_id, new_status, tracking) ==
    LET seller_id == require_api_key(api_key)
        oi == FirstIndex({i \in 1..Len(orders) : orders[i].id = order_id})
        req == [op |-> "update_order", code |-> 0, api_key |-> api_key,
                order_id |-> order_id]
    IN IF seller_id = 0
       THEN /\ last' = [req EXCEPT !.code = 401]
            /\ UNCHANGED <<sellers, listings, carts, orders, nextListing>>
       ELSE IF oi = 0
       THEN /\ last' = [req EXCEPT !.code = 404]
            /\ UNCHANGED <<sellers, listings, carts, orders, nextListing>>
       ELSE /\ orders' = [orders EXCEPT
                             ![oi].status = IF new_status # "" THEN new_status
                                            ELSE @,
                             ![oi].tracking = IF tracking # "" THEN tracking
                                              ELSE @]
            /\ last' = [req EXCEPT !.code = 200]
            /\ UNCHANGED <<sellers, listings, carts, nextListing>>

\* POST /api/seller/order/<order_id>/update
update_order(api_key, order_id, new_status, tracking) ==
    LET seller_id == require_api_key(api_key)
        oi == FirstIndex({i \in 1..Len(orders) :
                             orders[i].id = order_id
                                /\ orders[i].seller_id = seller_id})
        req == [op |-> "update_order", code |-> 0, api_key |-> api_key,
                order_id |-> order_id]
    IN IF seller_id = 0
       THEN /\ last' = [req EXCEPT !.code = 401]
            /\ UNCHANGED <<sellers, listings, carts, orders, nextListing>>
       ELSE IF oi = 0
       THEN /\ last' = [req EXCEPT !.code = 404]
            /\ UNCHANGED <<sellers, listings, carts, orders, nextListing>>
       ELSE /\ orders' = [orders EXCEPT
                             ![oi].status = IF new_status # "" THEN new_status
                                            ELSE @,
                             ![oi].tracking = IF tracking # "" THEN tracking
                                              ELSE @]
            /\ last' = [req EXCEPT !.code = 200]
            /\ UNCHANGED <<sellers, listings, carts, nextListing>>

\* ---- Requests ------------------------------------------------------------

Entry(id, card_name, condition, price, quantity, status) ==
    [id |-> id, seller_id |-> 0, card_name |-> card_name, set_code |-> Lea,
     condition |-> condition, rarity |-> Rare, price |-> price,
     quantity |-> quantity, status |-> status]

\* the entries a sync request is made of
IncomingChoices ==
    { Entry(2, Fog, "NM", 1004, 1, "Active"),
      Entry(2, Bolt, "NM", 2000, 3, "Sold"),
      Entry(0, Bolt, "NM", 2000, 0, "Active") }

\* the sequences of at most n elements of S, none of them twice
RECURSIVE SeqsUpTo(_, _)
SeqsUpTo(S, n) ==
    IF n = 0 THEN {<<>>}
    ELSE LET shorter == SeqsUpTo(S, n - 1)
             Fresh(q) == {y \in S : \A k \in 1..Len(q) : q[k] # y}
         IN shorter \cup UNION {{Append(q, x) : x \in Fresh(q)} : q \in shorter}

SyncBodies == SeqsUpTo(IncomingChoices, MaxIncoming)

\* the cookies a request carries: none, one no cart is stored under, or a
\* stored cart's
Cookies == {0} \cup DOMAIN carts
ApiKeys == {0, -1} \cup {sellers[s].api_key : s \in DOMAIN sellers}
\* a rejected request's body is never read
BodiesFor(k) == IF require_api_key(k) = 0 THEN {<<>>} ELSE SyncBodies
ModesFor(k) == IF require_api_key(k) = 0 THEN {"merge"}
               ELSE {"merge", "replace"}
ListingIds == {0} \cup {listings[i].id : i \in 1..Len(listings)}
Quantities == 0..MaxQty
OrderIds == 1..(Len(orders) + 1)
Updates == {<<"completed", "">>, <<"", "T1">>}

\* one more request is served, of at most `budget`
Tick(budget) == requests < budget /\ requests' = requests + 1

\* any request
Serve(budget) ==
    \/ \E cookie \in Cookies : Tick(budget) /\ get_cart(cookie)
    \/ \E cookie \in Cookies, id \in ListingIds, q \in Quantities :
           Tick(budget) /\ add_to_cart(cookie, id, q)
    \/ \E cookie \in Cookies, id \in ListingIds :
           Tick(budget) /\ remove_from_cart(cookie, id)
    \/ \E cookie \in Cookies : Tick(budget) /\ clear_cart(cookie)
    \/ \E cookie \in Cookies \cup {StaleCookie}, n \in {"", "bob"},
          e \in {"", "bob@x"} : Tick(budget) /\ checkout(cookie, n, e)
    \/ \E n \in {"", "shop"}, e \in {"a@x", "b@x"} :
           Tick(budget) /\ register_seller(n, e)
    \/ \E k \in ApiKeys : \E body \in BodiesFor(k), mode \in ModesFor(k) :
           Tick(budget) /\ sync_listings(k, body, mode)
    \/ \E k \in ApiKeys : Tick(budget) /\ seller_listings(k)
    \/ \E k \in ApiKeys : Tick(budget) /\ seller_orders(k)
    \/ \E k \in ApiKeys, o \in OrderIds, u \in Updates :
           Tick(budget) /\ update_order(k, o, u[1], u[2])

\* the stores a previous run left: those of InitFresh and, with a seller
\* registered, the ones its first sync of one listing leaves
Init ==
    /\ sellers \in {<<>>, <<Seller(1, "shop", "a@x")>>,
                    <<Seller(1, "shop", "a@x"), Seller(2, "shop", "b@x")>>}
    /\ \E body \in SeqsUpTo(IncomingChoices, 1) :
          LET st == SyncAll([ls |-> <<>>, gen |-> 0], body, 1)
          IN /\ body # <<>> => sellers # <<>>
             /\ listings = st.ls
             /\ nextListing = st.gen
    /\ carts = <<>>
    /\ orders = <<>>
    /\ last = [op |-> "start", code |-> 0]
    /\ requests = 0

Next == Serve(MaxRequests)

NextLong == Serve(LongRequests)

\* up to MaxRequests requests on a store a previous run left
Spec == Init /\ [][Next]_vars

\* up to LongRequests requests on a fresh store
SpecLong == InitFresh /\ [][NextLong]_vars

\* ---- Browsing ------------------------------------------------------------

Listing(id, seller_id, card_name, set_code, rarity, price, status) ==
    [id |-> id, seller_id |-> seller_id, card_name |-> card_name,
     set_code |-> set_code, condition |-> "NM", rarity |-> rarity,
     price |-> price, quantity |-> 1, status |-> status]

\* listings two sellers have synced
Catalogue ==
    { Listing(1, 1, <<"B", "o">>, <<"L">>, <<"r">>, 1004, "Active"),
      Listing(2, 1, <<"b">>, <<"x">>, <<"R", "r">>, 2000, "Active"),
      Listing(3, 2, <<"o", "B">>, <<"l", "x">>, <<"c">>, 1004, "Active"),
      Listing(4, 2, <<"f">>, <<"L">>, <<"r">>, 2000, "Active"),
      Listing(5, 2, <<"B", "o">>, <<"L">>, <<"r">>, 1004, "Sold"),
      Listing(6, 1, <<"f">>, <<"x">>, <<"c">>, 2000, "Sold") }

InitBrowse ==
    /\ sellers = <<Seller(1, "shop", "a@x"), Seller(2, "shop", "b@x")>>
    /\ listings \in SeqsUpTo(Catalogue, MaxListings)
    /\ carts = <<>>
    /\ orders = <<>>
    /\ nextListing = 0
    /\ last = [op |-> "start", code |-> 0]
    /\ requests = 0

\* get_listings changes no collection: one request on each catalogue
NextBrowse ==
    /\ requests = 0
    /\ requests' = 1
    /\ \E name \in {NoText, <<"B">>, <<"o">>}, set_code \in {NoText, <<"L">>},
         seller_id \in {0, 1}, min_price \in {<<>>, <<2000>>},
         max_price \in {<<>>, <<1004>>, <<2000>>}, rarity \in {NoText, <<"R">>},
         limit \in {1, DefaultLimit}, offset \in {-1, 0, 1} :
          get_listings(name, set_code, seller_id, min_price, max_price,
                       rarity, limit, offset)

SpecBrowse == InitBrowse /\ [][NextBrowse]_vars

(***************************************************************************)
(* Properties                                                              *)
(***************************************************************************)

\* the cart a request was served on, as it was stored before the request
\* (empty when the request carried no stored cart)
CartBefore(cart_id) ==
    IF cart_id \in DOMAIN carts THEN carts[cart_id] ELSE <<>>

\* the quantity a cart holds for a listing id, 0 when it holds none
HeldQty(cart, listing_id) ==
    LET held == {k \in 1..Len(cart) : cart[k].listing_id = listing_id}
    IN IF held = {} THEN 0 ELSE cart[CHOOSE k \in held : TRUE].quantity

Holds(cart, listing_id) ==
    \E k \in 1..Len(cart) : cart[k].listing_id = listing_id

CheckedOut == last'.op = "checkout" /\ last'.code = 200

\* C1: in every reachable state every listing's quantity is >= 0.
C1_QuantityNeverNegative ==
    \A i \in 1..Len(listings) : listings[i].quantity >= 0

\* C2: a successful checkout reduces the quantity of every listing the cart
\* references by exactly the quantity the cart holds for it, sets the status
\* to Sold when the result is zero and leaves it Active when the result is
\* positive.
C2_CheckoutDecrements ==
    [][CheckedOut =>
          LET cart == CartBefore(last'.cart_id)
          IN /\ Len(listings') = Len(listings)
             /\ \A i \in 1..Len(listings) :
                   Holds(cart, listings[i].id) =>
                      /\ listings'[i].quantity =
                            listings[i].quantity - HeldQty(cart, listings[i].id)
                      /\ listings'[i].quantity = 0 =>
                            listings'[i].status = "Sold"
                      /\ listings'[i].quantity > 0 =>
                            listings'[i].status = "Active"]_vars

\* C3: in every reachable state a listing whose quantity is zero has status
\* Sold (and so is not browsable and cannot be added to a cart).
C3_ZeroIsSold ==
    \A i \in 1..Len(listings) :
        listings[i].quantity = 0 => listings[i].status = "Sold"

\* what a listing must satisfy for the filters of the last get_listings
Matches(l) ==
    /\ last.name # NoText =>
          \E a \in 1..Len(l.card_name), b \in 1..Len(l.card_name) :
              Lower(SubSeq(l.card_name, a, b)) = Lower(last.name)
    /\ last.set # NoText =>
          \E a \in 1..Len(l.set_code), b \in 1..Len(l.set_code) :
              Lower(SubSeq(l.set_code, a, b)) = Lower(last.set)
    /\ last.seller # 0 => l.seller_id = last.seller
    /\ last.min_price # <<>> => ~(l.price < last.min_price[1])
    /\ last.max_price # <<>> => ~(l.price > last.max_price[1])
    /\ last.rarity # NoText =>
          \E a \in 1..Len(l.rarity), b \in 1..Len(l.rarity) :
              Lower(SubSeq(l.rarity, a, b)) = Lower(last.rarity)

PriceOf(listing_id) ==
    LET found == {i \in 1..Len(listings) : listings[i].id = listing_id}
    IN IF found = {} THEN 0
       ELSE listings[CHOOSE i \in found : \A j \in found : i <= j].price

\* whether the first listing with this id is Active
Buyable(listing_id) ==
    LET found == {i \in 1..Len(listings) : listings[i].id = listing_id}
    IN found # {}
          /\ listings[CHOOSE i \in found : \A j \in found : i <= j].status
                = "Active"

RECURSIVE SumOver(_, _)
SumOver(cart, ks) ==
    IF ks = {} THEN 0
    ELSE LET k == CHOOSE x \in ks : TRUE
         IN PriceOf(cart[k].listing_id) * cart[k].quantity
               + SumOver(cart, ks \ {k})

\* C5 as stated: the total get_cart returns is the sum over the items the
\* cart holds of the listing's price times the item's quantity.
C5_TotalIsSum ==
    last.op = "get_cart" =>
        LET cart == carts[last.cart_id]
        IN last.total = SumOver(cart, 1..Len(cart))

\* C5 amended: the total get_cart returns is the sum, rounded to two
\* decimals, over the items the cart holds whose listing still exists and is
\* Active, of the listing's current price times the item's quantity.
C5_TotalIsRoundedActiveSum ==
    last.op = "get_cart" =>
        LET cart == carts[last.cart_id]
            live == {k \in 1..Len(cart) : Buyable(cart[k].listing_id)}
            sum == SumOver(cart, live)
        IN /\ last.total % 10 = 0
           /\ last.total - sum <= 5
           /\ sum - last.total <= 5

\* get_cart on a cart holding an item whose listing is no longer Active
C5_Witness ==
    /\ last.op = "get_cart"
    /\ \E k \in 1..Len(carts[last.cart_id]) :
          /\ carts[last.cart_id][k].quantity > 0
          /\ ~Buyable(carts[last.cart_id][k].listing_id)
          /\ PriceOf(carts[last.cart_id][k].listing_id) > 0

\* C6: checkout answers 400 when the cart is empty (or the request carries no
\* stored cart) or when the buyer name or email is missing, and then no order
\* is created, no listing changes and every cart keeps its items.
C6_CheckoutRejected ==
    [][last'.op = "checkout" =>
          /\ ( \/ CartBefore(last'.cart_id) = <<>>
               \/ last'.name = ""
               \/ last'.email = "" ) => last'.code = 400
          /\ last'.code = 400 =>
                /\ orders' = orders
                /\ listings' = listings
                /\ \A c \in DOMAIN carts : carts'[c] = carts[c]]_vars

\* a checkout rejected for a missing buyer field on a cart that holds items
C6_Witness ==
    /\ last.op = "checkout"
    /\ last.code = 400
    /\ carts[last.cart_id] # <<>>
    /\ listings # <<>>

SyncedReplace ==
    last.op = "sync_listings" /\ last.code = 200 /\ last.mode = "replace"

\* the seller an API key belongs to
SellerOf(api_key) ==
    CHOOSE s \in DOMAIN sellers : sellers[s].api_key = api_key

\* the number of ids generated for the entries 1..k of a sync body
Generated(body, k) == Cardinality({j \in 1..k : body[j].id = 0})

\* entry k of the last sync body as the listing it is stored as
Stored(k) ==
    LET e == last.listings[k]
    IN [e EXCEPT !.seller_id = SellerOf(last.api_key),
                 !.id = IF e.id = 0
                        THEN GenBase + last.first_id
                                + Generated(last.listings, k)
                        ELSE e.id]

OwnedBy(s) == {i \in 1..Len(listings) : listings[i].seller_id = s}

\* C7 as stated: after a replace sync by S the listings S owns are exactly
\* the incoming listings, one listing for each distinct incoming entry.
C7_ReplaceExact ==
    SyncedReplace =>
        LET s == SellerOf(last.api_key)
            n == Len(last.listings)
        IN /\ {listings[i] : i \in OwnedBy(s)} = {Stored(k) : k \in 1..n}
           /\ Cardinality(OwnedBy(s))
                 = Cardinality({last.listings[k] : k \in 1..n})

\* C7 amended: after a replace sync by S every listing S owns is one of the
\* incoming listings (so every listing S owned before is gone unless it is
\* among them), the last incoming entry is among them, and S owns at most as
\* many listings as there are incoming entries: an entry that shares the id,
\* or the card_name and condition, of a listing already merged overwrites
\* that listing instead of adding one.
C7_ReplaceWithin ==
    SyncedReplace =>
        LET s == SellerOf(last.api_key)
            n == Len(last.listings)
        IN /\ \A i \in OwnedBy(s) : \E k \in 1..n : listings[i] = Stored(k)
           /\ n > 0 => \E i \in OwnedBy(s) : listings[i] = Stored(n)
           /\ Cardinality(OwnedBy(s)) <= n

\* a replace sync of two entries of which the second overwrote the first
C7_Witness ==
    /\ SyncedReplace
    /\ Len(last.listings) = 2
    /\ last.listings[1] # last.listings[2]
    /\ Cardinality(OwnedBy(SellerOf(last.api_key))) = 1

KeyKnown(api_key) ==
    api_key # 0 /\ \E s \in DOMAIN sellers : sellers[s].api_key = api_key

SellerOps ==
    {"sync_listings", "seller_listings", "seller_orders", "update_order"}

\* C8: every seller endpoint answers 401 when the API key is absent or
\* matches no registered seller, and then changes neither the listings nor
\* the orders.
C8_UnknownKeyRejected ==
    [][(last'.op \in SellerOps /\ ~KeyKnown(last'.api_key)) =>
          /\ last'.code = 401
          /\ listings' = listings
          /\ orders' = orders]_vars

\* an order update refused for a key no seller holds, with orders stored
C8_Witness ==
    /\ last.op = "update_order"
    /\ last.code = 401
    /\ last.api_key # 0
    /\ orders # <<>>
    /\ listings # <<>>

\* C9: a successful checkout creates exactly one pending order for each
\* distinct seller owning a listing the cart references; each holds exactly
\* the cart items whose listing belongs to that seller; no other order is
\* created.
C9_OneOrderPerSeller ==
    [][CheckedOut =>
          LET cart == CartBefore(last'.cart_id)
              refd(s) == {k \in 1..Len(cart) :
                             \E i \in 1..Len(listings) :
                                 /\ listings[i].id = cart[k].listing_id
                                 /\ listings[i].seller_id = s}
              owners == {s \in DOMAIN sellers : refd(s) # {}}
              n == Len(orders)
          IN /\ Len(orders') = n + Cardinality(owners)
             /\ SubSeq(orders', 1, n) = orders
             /\ {orders'[j].seller_id : j \in (n + 1)..Len(orders')} = owners
             /\ \A j \in (n + 1)..Len(orders') :
                   /\ orders'[j].status = "pending"
                   /\ Len(orders'[j].items)
                         = Cardinality(refd(orders'[j].seller_id))
                   /\ \A k \in refd(orders'[j].seller_id) :
                         \E m \in 1..Len(orders'[j].items) :
                             /\ orders'[j].items[m].listing_id
                                   = cart[k].listing_id
                             /\ orders'[j].items[m].quantity
                                   = cart[k].quantity]_vars

\* C10: a successful checkout leaves the cart it used without items, and a
\* checkout that follows it at once on the same cart answers 400, creates no
\* order and changes no listing.
C10_CartClearedAtCheckout ==
    [][/\ CheckedOut => carts'[last'.cart_id] = <<>>
       /\ ( /\ last.op = "checkout"
            /\ last.code = 200
            /\ last'.op = "checkout"
            /\ last'.cart_id = last.cart_id ) =>
             /\ last'.code = 400
             /\ orders' = orders
             /\ listings' = listings]_vars

\* the only cart has checked out and its next checkout, with the buyer fields
\* filled in, was refused
C10_Witness ==
    /\ last.op = "checkout"
    /\ last.code = 400
    /\ last.name # ""
    /\ last.email # ""
    /\ DOMAIN carts = {last.cart_id}
    /\ orders # <<>>

\* the order a request for order_id is about, 0 when no order has that id
OrderNamed(order_id) ==
    FirstIndex({i \in 1..Len(orders) : orders[i].id = order_id})

\* an update_order request presenting the key of a seller other than the
\* one the named order belongs to
ForeignUpdate(req) ==
    /\ req.op = "update_order"
    /\ KeyKnown(req.api_key)
    /\ OrderNamed(req.order_id) # 0
    /\ orders[OrderNamed(req.order_id)].seller_id
          # require_api_key(req.api_key)

\* C11: an existing order is never removed and is changed only by an
\* update_order request that names it and presents the API key of the
\* seller in its seller_id; an update_order request by any other seller is
\* answered 404 and leaves every order as it was.
C11_OrdersChangedOnlyByOwner ==
    [][/\ Len(orders') >= Len(orders)
       /\ \A i \in 1..Len(orders) :
             \/ orders'[i] = orders[i]
             \/ /\ last'.op = "update_order"
                /\ last'.code = 200
                /\ last'.order_id = orders[i].id
                /\ require_api_key(last'.api_key) = orders[i].seller_id
       /\ ForeignUpdate(last') =>
             (last'.code = 404 /\ orders' = orders)]_vars

\* another seller's update of a pending order has just been refused
C11_Witness ==
    /\ ForeignUpdate(last)
    /\ last.code = 404
    /\ orders[OrderNamed(last.order_id)].status = "pending"


\* the listing add_to_cart finds for a listing id: the first Active one
\* with that id, 0 when there is none
Available(listing_id) ==
    FirstIndex({i \in 1..Len(listings) :
                   listings[i].id = listing_id /\ Active(listings[i])})

\* C12: add_to_cart, given a listing id, answers 404 and leaves the cart's
\* items as they were when no Active listing has that id; it answers 400 and
\* leaves them as they were when the quantity asked for plus the quantity
\* the cart already holds for the listing exceeds the listing's quantity;
\* and after every add_to_cart answered 200 the quantity the cart holds for
\* the listing is at least 1 and at most the listing's quantity.
C12_AddToCartChecked ==
    [][(last'.op = "add_to_cart" /\ last'.listing_id # 0) =>
          LET id == last'.listing_id
              cart == CartBefore(last'.cart_id)
              after == carts'[last'.cart_id]
              li == Available(id)
          IN /\ li = 0 => (last'.code = 404 /\ after = cart)
             /\ ( /\ li # 0
                  /\ HeldQty(cart, id) + last'.quantity
                        > listings[li].quantity ) =>
                   (last'.code = 400 /\ after = cart)
             /\ last'.code = 200 =>
                   /\ li # 0
                   /\ HeldQty(after, id) >= 1
                   /\ HeldQty(after, id) <= listings[li].quantity]_vars


\* C13: a sync_listings request served for seller S, in either mode, leaves
\* every listing that another seller owned before the request present
\* afterwards with the same seller_id, quantity, price and status.
C13_SyncKeepsOthers ==
    [][(last'.op = "sync_listings" /\ last'.code = 200) =>
          \A i \in 1..Len(listings) :
              listings[i].seller_id # SellerOf(last'.api_key) =>
                  \E j \in 1..Len(listings') :
                      /\ listings'[j].id = listings[i].id
                      /\ listings'[j].seller_id = listings[i].seller_id
                      /\ listings'[j].quantity = listings[i].quantity
                      /\ listings'[j].price = listings[i].price
                      /\ listings'[j].status = listings[i].status]_vars

====
